---- MODULE Spec2Model ----
(***************************************************************************)
(* Model of packages/cadmium/src/oplog/mod.rs: the content-addressed       *)
(* operation log (OpLog), its commits, and the EvolutionLog wrapper that   *)
(* pairs the log with a cursor.                                            *)
(*                                                                         *)
(* Strings are sequences of one-character strings, so that format!()       *)
(* interpolation is modelled as concatenation and field boundaries can     *)
(* alias exactly as they do in the source.  A SHA-256 hex digest is        *)
(* modelled as its bracketed preimage: the digest is collision-free, has   *)
(* no '-' of its own at the top level, and is never the empty string.      *)
(***************************************************************************)
EXTENDS Integers, Sequences, FiniteSets, TLC

VARIABLES cursor, oplog, last

vars == <<cursor, oplog, last>>

\* Largest number of commits the log is allowed to reach in the model.
MaxLen == 4

(***************************************************************************)
(* Strings and formatting                                                  *)
(***************************************************************************)

\* The separator that every format!() in the file puts between fields.
Sep == <<"-">>

Digit(n) == <<SubSeq("0123456789", n + 1, n + 1)>>

RECURSIVE FmtNat(_)
FmtNat(n) == IF n < 10 THEN Digit(n) ELSE FmtNat(n \div 10) \o Digit(n % 10)

\* Display of an f64 ("{x}"); the model's floats are the integral values.
FmtF64(x) == IF x < 0 THEN <<"-">> \o FmtNat(0 - x) ELSE FmtNat(x)

RECURSIVE EscapeDebug(_)
EscapeDebug(s) ==
    IF s = <<>> THEN <<>>
    ELSE (IF Head(s) \in {"\"", "\\"} THEN <<"\\", Head(s)>> ELSE <<Head(s)>>)
         \o EscapeDebug(Tail(s))

\* Debug of a String ("{plane_name:?}"): quoted, with quotes and backslashes
\* escaped.
FmtDebugStr(s) == <<"\"">> \o EscapeDebug(s) \o <<"\"">>

\* Debug of the external Plane payload ("{plane:?}"); the payload is opaque.
FmtDebugPlane(p) == <<"P", "l", "a", "n", "e", "(">> \o p \o <<")">>

\* Sha256::new() ... format!("{:x}", hasher.finalize()) over the bytes fed in.
Sha256Hex(bytes) == <<"[">> \o bytes \o <<"]">>

Salt == <<"c", "a", "d", "m", "i", "u", "m">>

(***************************************************************************)
(* Operation                                                               *)
(***************************************************************************)

\* The bytes the match in Operation::hash feeds to the hasher after the salt.
HashFields(op) ==
    CASE op.variant = "Create" -> op.nonce
      [] op.variant = "Describe" -> op.description \o Sep \o op.commit
      [] op.variant = "NewPlane" -> op.name \o Sep \o FmtDebugPlane(op.plane)
      [] op.variant = "NewSketch" ->
            op.name \o Sep \o FmtDebugStr(op.plane_name) \o Sep \o op.unique_id
      [] op.variant = "NewRectangle" ->
            op.sketch_id \o Sep \o FmtF64(op.x) \o Sep \o FmtF64(op.y) \o Sep
              \o FmtF64(op.width) \o Sep \o FmtF64(op.height)
      [] op.variant = "NewCircle" ->
            op.sketch_id \o Sep \o FmtF64(op.x) \o Sep \o FmtF64(op.y) \o Sep
              \o FmtF64(op.radius)
      [] op.variant = "NewExtrusion" ->
            op.name \o Sep \o op.unique_id \o Sep \o op.sketch_id \o Sep
              \o FmtF64(op.click_x) \o Sep \o FmtF64(op.click_y) \o Sep
              \o FmtF64(op.depth)
      [] op.variant = "ModifyExtrusionDepth" ->
            op.unique_id \o Sep \o FmtF64(op.depth)

\* The bytes Operation::hash has fed to the hasher when it finalizes: the
\* salt, then the formatted fields.
HashInput(op) == Salt \o HashFields(op)

\* Operation::hash
hash(op) == Sha256Hex(HashInput(op))

\* Variant of id_from_op_and_parent that leaves the parent out of the digest.
id_without_parent(operation, parent) ==
    LET h == hash(operation)
    IN  Sha256Hex(h \o Sep)

\* id_from_op_and_parent
id_from_op_and_parent(operation, parent) ==
    LET h == hash(operation)
    IN  Sha256Hex(h \o Sep \o parent)

(***************************************************************************)
(* Commit and OpLog                                                        *)
(***************************************************************************)

HelloWorld == <<"H", "e", "l", "l", "o", " ", "W", "o", "r", "l", "d">>

\* Commit::init
Commit_init ==
    LET init_op == [variant |-> "Create", nonce |-> HelloWorld]
        parent_sha == <<>>
    IN  [id |-> id_from_op_and_parent(init_op, parent_sha),
         content_hash |-> hash(init_op),
         operation |-> init_op,
         parent |-> parent_sha]

\* OpLog::new
OpLog_new == [commits |-> <<>>]

\* Variant of OpLog::init that pushes the creation commit twice.
OpLog_init_twice(ol) ==
    [ol EXCEPT !.commits = Append(Append(@, Commit_init), Commit_init)]

\* Variant of OpLog::init that pushes the creation commit on an empty log
\* only.
OpLog_init_guarded(ol) ==
    IF ol.commits = <<>>
    THEN [ol EXCEPT !.commits = Append(@, Commit_init)]
    ELSE ol

\* OpLog::init
OpLog_init(ol) == [ol EXCEPT !.commits = Append(@, Commit_init)]

\* Variant of OpLog::append that inserts the new commit at the front.
OpLog_append_front(ol, parent, operation) ==
    LET op_hash == hash(operation)
        new_commit == [id |-> id_from_op_and_parent(operation, parent),
                       operation |-> operation,
                       content_hash |-> op_hash,
                       parent |-> parent]
    IN  [oplog |-> [ol EXCEPT !.commits = <<new_commit>> \o @],
         ret |-> new_commit]

\* Variant of OpLog::append that stores the id as the content hash.
OpLog_append_swapped(ol, parent, operation) ==
    LET new_id == id_from_op_and_parent(operation, parent)
        new_commit == [id |-> new_id,
                       operation |-> operation,
                       content_hash |-> new_id,
                       parent |-> parent]
    IN  [oplog |-> [ol EXCEPT !.commits = Append(@, new_commit)],
         ret |-> new_commit]

\* Variant of OpLog::append that pushes only when the parent is empty or the
\* id of a commit in the log.
OpLog_append_checked(ol, parent, operation) ==
    LET op_hash == hash(operation)
        new_commit == [id |-> id_from_op_and_parent(operation, parent),
                       operation |-> operation,
                       content_hash |-> op_hash,
                       parent |-> parent]
        known == parent = <<>>
                   \/ \E i \in 1..Len(ol.commits) : ol.commits[i].id = parent
    IN  [oplog |-> IF known
                   THEN [ol EXCEPT !.commits = Append(@, new_commit)]
                   ELSE ol,
         ret |-> new_commit]

\* OpLog::append: the pushed log and the returned copy of the new commit.
OpLog_append(ol, parent, operation) ==
    LET op_hash == hash(operation)
        new_commit == [id |-> id_from_op_and_parent(operation, parent),
                       operation |-> operation,
                       content_hash |-> op_hash,
                       parent |-> parent]
    IN  [oplog |-> [ol EXCEPT !.commits = Append(@, new_commit)],
         ret |-> new_commit]

\* OpLog::last (None is the empty sequence, Some(c) the one-element sequence)
OpLog_last(ol) ==
    IF ol.commits = <<>> THEN <<>> ELSE <<ol.commits[Len(ol.commits)]>>

\* OpLog::get_length
get_length(ol) == Len(ol.commits)

(***************************************************************************)
(* EvolutionLog                                                            *)
(***************************************************************************)

Ok == [ok |-> TRUE]

Err(msg) == [ok |-> FALSE, err |-> msg]

\* format!("SHA {} not found in oplog", sha)
NotFound(sha) ==
    <<"S", "H", "A", " ">> \o sha
      \o <<" ", "n", "o", "t", " ", "f", "o", "u", "n", "d", " ",
           "i", "n", " ", "o", "p", "l", "o", "g">>

\* The "for commit in &self.oplog.commits" scan of checkout and cherry_pick:
\* index of the first commit from position i on whose id is sha, 0 if none.
RECURSIVE Scan(_, _, _)
Scan(commits, i, sha) ==
    IF i > Len(commits) THEN 0
    ELSE IF commits[i].id = sha THEN i
    ELSE Scan(commits, i + 1, sha)

\* EvolutionLog::new
EvolutionLog_new ==
    LET ol == OpLog_init(OpLog_new)
    IN  [cursor |-> OpLog_last(ol)[1].id, oplog |-> ol]

\* Variant of EvolutionLog::append that chains from the tail of the log
\* instead of the cursor.
append_from_tail(self, operation) ==
    LET r == OpLog_append(self.oplog, OpLog_last(self.oplog)[1].id, operation)
    IN  [self |-> [cursor |-> r.ret.id, oplog |-> r.oplog],
         ret |-> r.ret.id]

\* Variant of EvolutionLog::append that passes the empty fingerprint as the
\* parent.
append_unparented(self, operation) ==
    LET r == OpLog_append(self.oplog, <<>>, operation)
    IN  [self |-> [cursor |-> r.ret.id, oplog |-> r.oplog],
         ret |-> r.ret.id]

\* EvolutionLog::append
append(self, operation) ==
    LET r == OpLog_append(self.oplog, self.cursor, operation)
    IN  [self |-> [cursor |-> r.ret.id, oplog |-> r.oplog],
         ret |-> r.ret.id]

\* Variant of checkout that moves the cursor before it looks the sha up.
checkout_set_first(self, sha) ==
    LET i == Scan(self.oplog.commits, 1, sha)
        moved == [self EXCEPT !.cursor = sha]
    IN  IF i # 0
        THEN [self |-> moved, ret |-> Ok]
        ELSE [self |-> moved, ret |-> Err(NotFound(sha))]

\* Variant of checkout that compares the sha with the last commit only.
checkout_tail_only(self, sha) ==
    IF OpLog_last(self.oplog)[1].id = sha
    THEN [self |-> [self EXCEPT !.cursor = sha], ret |-> Ok]
    ELSE [self |-> self, ret |-> Err(NotFound(sha))]

\* Variant of checkout that reports success when the sha is absent.
checkout_always_ok(self, sha) ==
    LET i == Scan(self.oplog.commits, 1, sha)
    IN  IF i # 0
        THEN [self |-> [self EXCEPT !.cursor = sha], ret |-> Ok]
        ELSE [self |-> self, ret |-> Ok]

\* EvolutionLog::checkout
checkout(self, sha) ==
    LET i == Scan(self.oplog.commits, 1, sha)
    IN  IF i # 0
        THEN [self |-> [self EXCEPT !.cursor = sha], ret |-> Ok]
        ELSE [self |-> self, ret |-> Err(NotFound(sha))]

\* Variant of cherry_pick that keeps the source commit's parent.
cherry_pick_src_parent(self, sha) ==
    LET i == Scan(self.oplog.commits, 1, sha)
    IN  IF i # 0
        THEN LET src == self.oplog.commits[i]
                 r == OpLog_append(self.oplog, src.parent, src.operation)
             IN  [self |-> [cursor |-> r.ret.id, oplog |-> r.oplog],
                  ret |-> Ok]
        ELSE [self |-> self, ret |-> Err(NotFound(sha))]

\* Variant of cherry_pick that replays the last commit when the sha is
\* absent, and still reports the error.
cherry_pick_on_miss(self, sha) ==
    LET i == Scan(self.oplog.commits, 1, sha)
    IN  IF i # 0
        THEN [self |-> append(self, self.oplog.commits[i].operation).self,
              ret |-> Ok]
        ELSE [self |-> append(self, OpLog_last(self.oplog)[1].operation).self,
              ret |-> Err(NotFound(sha))]

\* Variant of cherry_pick that pushes onto the oplog without moving the
\* cursor.
cherry_pick_no_advance(self, sha) ==
    LET i == Scan(self.oplog.commits, 1, sha)
    IN  IF i # 0
        THEN LET r == OpLog_append(self.oplog, self.cursor,
                                   self.oplog.commits[i].operation)
             IN  [self |-> [self EXCEPT !.oplog = r.oplog], ret |-> Ok]
        ELSE [self |-> self, ret |-> Err(NotFound(sha))]

\* Variant of cherry_pick that chains the replayed commit from the source
\* commit instead of the cursor.
cherry_pick_onto_source(self, sha) ==
    LET i == Scan(self.oplog.commits, 1, sha)
    IN  IF i # 0
        THEN LET r == OpLog_append(self.oplog, sha,
                                   self.oplog.commits[i].operation)
             IN  [self |-> [cursor |-> r.ret.id, oplog |-> r.oplog],
                  ret |-> Ok]
        ELSE [self |-> self, ret |-> Err(NotFound(sha))]

\* EvolutionLog::cherry_pick
cherry_pick(self, sha) ==
    LET i == Scan(self.oplog.commits, 1, sha)
    IN  IF i # 0
        THEN [self |-> append(self, self.oplog.commits[i].operation).self,
              ret |-> Ok]
        ELSE [self |-> self, ret |-> Err(NotFound(sha))]

(***************************************************************************)
(* Inputs                                                                  *)
(***************************************************************************)

PlaneP == <<"P">>

\* Operation values.  OpDescribeA and OpDescribeB differ in both fields and
\* format to the same bytes.
OpDescribeA == [variant |-> "Describe", description |-> <<"a">>,
                commit |-> <<"b", "-", "c">>]

OpDescribeB == [variant |-> "Describe", description |-> <<"a", "-", "b">>,
                commit |-> <<"c">>]

OpNewPlane == [variant |-> "NewPlane", name |-> <<"X", "Y">>, plane |-> PlaneP]

OpModify == [variant |-> "ModifyExtrusionDepth", unique_id |-> <<"e">>,
             depth |-> -1]

OpCreate == [variant |-> "Create", nonce |-> HelloWorld]

\* Operations a caller appends.
Operations == {OpDescribeA, OpDescribeB, OpNewPlane}

Self == [cursor |-> cursor, oplog |-> oplog]

Ids(commits) == {commits[i].id : i \in 1..Len(commits)}

\* Fingerprints no commit ever carries as its id: the empty string (the
\* root's parent) and the root's content hash.
AbsentShas == {<<>>, hash(OpCreate)}

\* Arguments tried for checkout and cherry_pick: every id in the log, ids
\* that the log may or may not hold yet, and fingerprints it never holds.
Targets ==
    Ids(oplog.commits)
      \cup {id_from_op_and_parent(OpNewPlane, Commit_init.id)}
      \cup AbsentShas

(***************************************************************************)
(* Specification                                                           *)
(***************************************************************************)

\* cursor and oplog are the fields of the EvolutionLog.  last observes the
\* most recent public call: its name, its argument, what it returned, and
\* whether the call before it was the same call with the same argument.
SameCall(call, arg) ==
    /\ last.call = call
    /\ IF call = "append" THEN last.operation = arg ELSE last.sha = arg

Init ==
    /\ cursor = EvolutionLog_new.cursor
    /\ oplog = EvolutionLog_new.oplog
    /\ last = [call |-> "new", again |-> FALSE]

CallAppend ==
    \E operation \in Operations :
        /\ get_length(oplog) < MaxLen
        /\ LET r == append(Self, operation)
           IN  /\ cursor' = r.self.cursor
               /\ oplog' = r.self.oplog
               /\ last' = [call |-> "append", operation |-> operation,
                           ret |-> r.ret,
                           again |-> SameCall("append", operation)]

CallCheckout ==
    \E sha \in Targets :
        /\ LET r == checkout(Self, sha)
           IN  /\ cursor' = r.self.cursor
               /\ oplog' = r.self.oplog
               /\ last' = [call |-> "checkout", sha |-> sha, ret |-> r.ret,
                           again |-> SameCall("checkout", sha)]

CallCherryPick ==
    \E sha \in Targets :
        /\ get_length(oplog) < MaxLen
        /\ LET r == cherry_pick(Self, sha)
           IN  /\ cursor' = r.self.cursor
               /\ oplog' = r.self.oplog
               /\ last' = [call |-> "cherry_pick", sha |-> sha, ret |-> r.ret,
                           again |-> SameCall("cherry_pick", sha)]

Next == CallAppend \/ CallCheckout \/ CallCherryPick

Spec == Init /\ [][Next]_vars

(***************************************************************************)
(* Specification of the OpLog used on its own                              *)
(***************************************************************************)

\* A caller that owns a bare OpLog: oplog is the OpLog, last observes the
\* most recent call, and there is no EvolutionLog, so cursor stays empty.
\* Parents passed to OpLog::append: ids in the log and fingerprints that
\* are not.
ParentArgs == Ids(oplog.commits) \cup AbsentShas

InitOpLog ==
    /\ cursor = <<>>
    /\ oplog = OpLog_new
    /\ last = [call |-> "oplog_new"]

CallOpLogInit ==
    /\ get_length(oplog) < MaxLen
    /\ oplog' = OpLog_init(oplog)
    /\ last' = [call |-> "init"]
    /\ UNCHANGED cursor

CallOpLogAppend ==
    \E parent \in ParentArgs, operation \in Operations :
        /\ get_length(oplog) < MaxLen
        /\ LET r == OpLog_append(oplog, parent, operation)
           IN  /\ oplog' = r.oplog
               /\ last' = [call |-> "oplog_append", parent |-> parent,
                           operation |-> operation, ret |-> r.ret]
        /\ UNCHANGED cursor

NextOpLog == CallOpLogInit \/ CallOpLogAppend

SpecOpLog == InitOpLog /\ [][NextOpLog]_vars

(***************************************************************************)
(* Specification of Operation::hash on pairs of operations                 *)
(***************************************************************************)

\* Field values the hashed operations are built from.
Strs == {<<"a">>, <<"b">>, <<"a", "-", "b">>, <<"b", "-", "b">>}

Floats == {-1, 1}

HashInputs ==
    [variant : {"Create"}, nonce : Strs]
      \cup [variant : {"Describe"}, description : Strs, commit : Strs]
      \cup [variant : {"NewPlane"}, name : {<<"a">>, <<"b">>},
                plane : {PlaneP}]
      \cup [variant : {"NewSketch"}, name : {<<"a">>},
                plane_name : {<<"a">>, <<"\"">>}, unique_id : {<<"b">>}]
      \cup [variant : {"NewRectangle"}, sketch_id : {<<"a">>}, x : Floats,
                y : Floats, width : {1}, height : {12}]
      \cup [variant : {"NewCircle"}, sketch_id : {<<"a">>}, x : Floats,
                y : {1}, radius : Floats]
      \cup [variant : {"NewExtrusion"}, name : {<<"a">>},
                unique_id : {<<"b">>}, sketch_id : {<<"a">>}, click_x : {1},
                click_y : {-1}, depth : Floats]
      \cup [variant : {"ModifyExtrusionDepth"}, unique_id : Strs,
                depth : Floats]

\* A caller holds two operation values and hashes both; last observes the
\* values, the bytes each hash digests and the fingerprints returned.  No log
\* is involved: oplog stays empty and cursor stays empty.
InitHash ==
    /\ cursor = <<>>
    /\ oplog = OpLog_new
    /\ \E a \in HashInputs, b \in HashInputs :
          last = [call |-> "operations", a |-> a, b |-> b]

CallHash ==
    /\ last.call = "operations"
    /\ last' = [call |-> "hash", a |-> last.a, b |-> last.b,
                bytes_a |-> HashInput(last.a), bytes_b |-> HashInput(last.b),
                ret_a |-> hash(last.a), ret_b |-> hash(last.b)]
    /\ UNCHANGED <<cursor, oplog>>

NextHash == CallHash

SpecHash == InitHash /\ [][NextHash]_vars

(***************************************************************************)
(* Properties                                                              *)
(***************************************************************************)

commits == oplog.commits

Tail_commit(cs) == cs[Len(cs)]

\* Position of the commit that a lookup by id names: the earliest one that
\* carries the id.
FirstWith(cs, sha) ==
    CHOOSE i \in 1..Len(cs) :
        /\ cs[i].id = sha
        /\ \A j \in 1..(i - 1) : cs[j].id # sha

\* The fingerprint quoted in a "SHA ... not found in oplog" message.
ErrCarried(msg) == SubSeq(msg, 5, Len(msg) - 19)

IsNotFound(ret, sha) ==
    /\ ~ret.ok
    /\ SubSeq(ret.err, 1, 4) = <<"S", "H", "A", " ">>
    /\ ErrCarried(ret.err) = sha

\* C1: in every reachable state the cursor equals the id of at least one
\* commit stored in the oplog.
CursorInLog == \E i \in 1..Len(commits) : commits[i].id = cursor

\* A failed checkout has just returned while the cursor sits on an earlier
\* commit of a log of three or more commits.
CursorInLogWitness ==
    /\ last.call = "checkout"
    /\ ~last.ret.ok
    /\ Len(commits) >= 3
    /\ cursor # Tail_commit(commits).id

\* C2: append(op) makes the log exactly one commit longer; the new last
\* commit carries op and has the pre-call cursor as parent; the returned
\* fingerprint is the new last commit's id and the new cursor.
AppendChains ==
    [][last'.call = "append" =>
         /\ Len(commits') = Len(commits) + 1
         /\ Tail_commit(commits').operation = last'.operation
         /\ Tail_commit(commits').parent = cursor
         /\ last'.ret = Tail_commit(commits').id
         /\ last'.ret = cursor']_vars

\* An append has just run from a cursor that was not the tail of the log.
AppendChainsWitness ==
    /\ last.call = "append"
    /\ Len(commits) >= 3
    /\ Tail_commit(commits).parent # commits[Len(commits) - 1].id
    /\ cursor = Tail_commit(commits).id

\* C3: checkout of an id present in the log (root and current cursor
\* included) succeeds, sets the cursor to exactly that id and leaves the
\* oplog unchanged.
CheckoutExisting ==
    [][(last'.call = "checkout" /\ last'.sha \in Ids(commits)) =>
         /\ last'.ret = Ok
         /\ cursor' = last'.sha
         /\ oplog' = oplog]_vars

\* A checkout of the root id has just succeeded in a log of three or more
\* commits.
CheckoutExistingWitness ==
    /\ last.call = "checkout"
    /\ last.ret.ok
    /\ last.sha = commits[1].id
    /\ cursor = commits[1].id
    /\ Len(commits) >= 3

\* C4: checkout of a fingerprint that is no commit's id returns the
\* not-found error carrying that fingerprint and leaves cursor and oplog
\* as they were.
CheckoutAbsent ==
    [][(last'.call = "checkout" /\ last'.sha \notin Ids(commits)) =>
         /\ IsNotFound(last'.ret, last'.sha)
         /\ cursor' = cursor
         /\ oplog' = oplog]_vars

\* A checkout of an absent, non-empty fingerprint has just failed in a log
\* that already holds appended commits.
CheckoutAbsentWitness ==
    /\ last.call = "checkout"
    /\ ~last.ret.ok
    /\ last.sha # <<>>
    /\ last.sha \notin Ids(commits)
    /\ Len(commits) >= 2

\* C5: cherry_pick of an id present in the log succeeds and appends exactly
\* one commit, also when several commits carry that id: its operation is
\* the operation of the commit the id names, its parent is the pre-call
\* cursor (not the source's parent), and the cursor becomes its id.
CherryPickExisting ==
    [][(last'.call = "cherry_pick" /\ last'.sha \in Ids(commits)) =>
         /\ last'.ret = Ok
         /\ Len(commits') = Len(commits) + 1
         /\ SubSeq(commits', 1, Len(commits)) = commits
         /\ Tail_commit(commits').operation =
                commits[FirstWith(commits, last'.sha)].operation
         /\ Tail_commit(commits').parent = cursor
         /\ cursor' = Tail_commit(commits').id]_vars

\* A cherry_pick has just succeeded on an id that two earlier commits with
\* different operations carry, from a cursor that is not the source's
\* parent.
CherryPickExistingWitness ==
    /\ last.call = "cherry_pick"
    /\ last.ret.ok
    /\ \E i, j \in 1..(Len(commits) - 1) :
          /\ i < j
          /\ commits[i].id = last.sha
          /\ commits[j].id = last.sha
          /\ commits[i].operation # commits[j].operation
          /\ Tail_commit(commits).operation = commits[i].operation
          /\ Tail_commit(commits).parent # commits[i].parent

\* C6 as stated: the commit appended by a successful cherry_pick(source)
\* always has an id that differs from source.
CherryPickFreshId ==
    [][(last'.call = "cherry_pick" /\ last'.ret.ok) =>
         Tail_commit(commits').id # last'.sha]_vars

\* C6 amended: the commit appended by a successful cherry_pick(source) has an
\* id that differs from source exactly when the pre-call cursor differs from
\* the source commit's parent; picked from the source's parent it gets the
\* source's id again.
CherryPickIdFreshIffParentDiffers ==
    [][(last'.call = "cherry_pick" /\ last'.ret.ok) =>
         ((Tail_commit(commits').id # last'.sha)
            <=> (cursor # commits[FirstWith(commits, last'.sha)].parent))]_vars

\* A cherry_pick has just succeeded and appended a commit whose id is the
\* source id it was given.
CherryPickSameIdWitness ==
    /\ last.call = "cherry_pick"
    /\ last.ret.ok
    /\ Tail_commit(commits).id = last.sha
    /\ Tail_commit(commits).parent = commits[FirstWith(commits, last.sha)].parent

\* C7: cherry_pick of a fingerprint that is no commit's id returns the
\* not-found error carrying that fingerprint and changes neither cursor nor
\* oplog.
CherryPickAbsent ==
    [][(last'.call = "cherry_pick" /\ last'.sha \notin Ids(commits)) =>
         /\ IsNotFound(last'.ret, last'.sha)
         /\ cursor' = cursor
         /\ oplog' = oplog]_vars

\* A cherry_pick of an absent, non-empty fingerprint has just failed in a
\* log that already holds appended commits.
CherryPickAbsentWitness ==
    /\ last.call = "cherry_pick"
    /\ ~last.ret.ok
    /\ last.sha # <<>>
    /\ last.sha \notin Ids(commits)
    /\ Len(commits) >= 2

\* C8: two cherry_picks in a row of the same existing source append two
\* commits with equal operations, distinct ids and distinct parents, the
\* second one's parent being the first one's id.
CherryPickTwice ==
    [][(/\ last.call = "cherry_pick"
        /\ last.ret.ok
        /\ last'.call = "cherry_pick"
        /\ last'.sha = last.sha
        /\ oplog' # oplog) =>
         LET first == Tail_commit(commits)
             second == Tail_commit(commits')
         IN  /\ last'.ret = Ok
             /\ Len(commits') = Len(commits) + 1
             /\ first.operation = second.operation
             /\ first.id # second.id
             /\ first.parent # second.parent
             /\ second.parent = first.id]_vars

\* The second of two successive successful cherry_picks of one source has
\* just returned.
CherryPickTwiceWitness ==
    /\ last.call = "cherry_pick"
    /\ last.again
    /\ last.ret.ok
    /\ Len(commits) >= 3
    /\ Tail_commit(commits).operation = commits[Len(commits) - 1].operation

\* C9: across every step the old commit sequence is a prefix of the new one,
\* and the oplog grows only on append and on successful cherry_pick.
AppendOnly ==
    [][/\ Len(commits') >= Len(commits)
       /\ SubSeq(commits', 1, Len(commits)) = commits
       /\ (oplog' # oplog =>
             \/ last'.call = "append"
             \/ (last'.call = "cherry_pick" /\ last'.ret.ok))]_vars

\* The log has grown through both an append and a cherry_pick, and the call
\* just made was a checkout.
AppendOnlyWitness ==
    /\ Len(commits) >= 3
    /\ last.call = "checkout"
    /\ \E i, j \in 2..Len(commits) :
          i # j /\ commits[i].operation = commits[j].operation

\* C10: every commit in the log, the root included, has content_hash equal
\* to the hash of its operation and id equal to the digest of content_hash,
\* separator and parent.
CommitHashesConsistent ==
    \A i \in 1..Len(commits) :
        /\ commits[i].content_hash = hash(commits[i].operation)
        /\ commits[i].id =
              Sha256Hex(commits[i].content_hash \o Sep \o commits[i].parent)

\* The log holds the root and a commit chained from a commit other than the
\* root.
CommitHashesConsistentWitness ==
    /\ commits[1].parent = <<>>
    /\ \E i \in 2..Len(commits) :
          /\ commits[i].parent # commits[1].id
          /\ commits[i].operation.variant # "Create"

\* C11: the first commit is the only one with an empty parent, and every
\* other commit's parent is the id of a commit at a strictly earlier
\* position in the log.
ParentsPointBack ==
    /\ commits[1].parent = <<>>
    /\ \A i \in 2..Len(commits) :
          /\ commits[i].parent # <<>>
          /\ \E j \in 1..(i - 1) : commits[j].id = commits[i].parent

\* The log holds a commit whose parent is not the commit stored right before
\* it, and a commit chained from a commit other than the root.
ParentsPointBackWitness ==
    /\ Len(commits) >= 4
    /\ \E i \in 3..Len(commits) : commits[i].parent # commits[i - 1].id
    /\ \E i \in 3..Len(commits) : commits[i].parent # commits[1].id

\* C12: right after EvolutionLog::new() the log has length exactly 1, its only
\* commit is the root (a Create operation with empty parent), and the cursor
\* is that commit's id.
NewIsRootOnly ==
    last.call = "new" =>
        /\ get_length(oplog) = 1
        /\ commits[1].operation.variant = "Create"
        /\ commits[1].parent = <<>>
        /\ cursor = commits[1].id

\* The freshly constructed log, before any call.
NewIsRootOnlyWitness ==
    /\ last.call = "new"
    /\ Len(commits) = 1
    /\ commits[1].operation.nonce = HelloWorld

\* C13: from a fresh log, append(op) gives length 2, cursor = new id and
\* the new commit's parent = root id; then checkout(root id) gives cursor =
\* root id with length still 2; then cherry_pick(id of commit #2) gives
\* length 3, cursor = id of commit #3, commit #3's operation equal to commit
\* #2's, and commit #3's parent equal to the root id, not commit #2's id.
Scenario ==
    [][/\ (last.call = "new" /\ last'.call = "append") =>
            /\ Len(commits') = 2
            /\ cursor' = commits'[2].id
            /\ last'.ret = commits'[2].id
            /\ commits'[2].parent = commits[1].id
       /\ (/\ Len(commits) = 2
           /\ last.call = "append"
           /\ last'.call = "checkout"
           /\ last'.sha = commits[1].id) =>
            /\ last'.ret = Ok
            /\ cursor' = commits[1].id
            /\ Len(commits') = 2
       /\ (/\ Len(commits) = 2
           /\ last.call = "checkout"
           /\ last.ret.ok
           /\ last.sha = commits[1].id
           /\ last'.call = "cherry_pick"
           /\ last'.sha = commits[2].id) =>
            /\ last'.ret = Ok
            /\ Len(commits') = 3
            /\ cursor' = commits'[3].id
            /\ commits'[3].operation = commits[2].operation
            /\ commits'[3].parent = commits[1].id
            /\ commits'[3].parent # commits[2].id]_vars

\* The scenario has run to its end with the NewPlane operation: commit #2
\* was appended on the root, and commit #3 was cherry-picked from it.
ScenarioWitness ==
    /\ Len(commits) = 3
    /\ last.call = "cherry_pick"
    /\ last.ret.ok
    /\ last.sha = commits[2].id
    /\ commits[2].operation = OpNewPlane
    /\ commits[2].parent = commits[1].id
    /\ commits[3].parent = commits[1].id
    /\ cursor = commits[3].id

\* C18: any two commits of the log with the same id have equal parent and
\* equal content_hash, so the commit an id names is unambiguous in those
\* fields even when the id occurs more than once.
IdDeterminesParentAndContent ==
    \A i, j \in 1..Len(commits) :
        commits[i].id = commits[j].id =>
            /\ commits[i].parent = commits[j].parent
            /\ commits[i].content_hash = commits[j].content_hash

\* The cursor names an id that two commits with different operations carry.
IdDeterminesParentAndContentWitness ==
    \E i, j \in 1..Len(commits) :
        /\ i < j
        /\ commits[i].id = commits[j].id
        /\ commits[i].operation # commits[j].operation
        /\ cursor = commits[i].id

\* Following parent links from sha, looking each parent up by id, arrives at
\* the root commit's id within fuel steps and without leaving the log.
RECURSIVE ReachesRoot(_, _, _)
ReachesRoot(cs, sha, fuel) ==
    IF sha = cs[1].id THEN TRUE
    ELSE IF fuel = 0 \/ sha \notin Ids(cs) THEN FALSE
    ELSE ReachesRoot(cs, cs[FirstWith(cs, sha)].parent, fuel - 1)

\* C19: from the cursor and from every commit, following parent to a commit
\* with that id reaches the root commit in fewer steps than the log has
\* commits; the parent links have no cycle and never leave the log.
HistoryWellFounded ==
    /\ ReachesRoot(commits, cursor, Len(commits) - 1)
    /\ \A i \in 1..Len(commits) :
          ReachesRoot(commits, commits[i].id, Len(commits) - 1)

\* The log is one chain of four commits with the cursor at its tip, so the
\* walk from the cursor needs every step the bound allows.
HistoryWellFoundedWitness ==
    /\ Len(commits) = 4
    /\ \A i \in 2..4 : commits[i].parent = commits[i - 1].id
    /\ cursor = commits[4].id
    /\ ~ReachesRoot(commits, cursor, Len(commits) - 2)

\* C14: any two operations that differ in variant or in any field value are
\* fed to the digest as different byte strings.
HashEncodingInjective ==
    (last.call = "hash" /\ last.a # last.b) => last.bytes_a # last.bytes_b

\* C15: OpLog::append never checks the parent: for any parent, also one that
\* is no commit's id and also on a log that was never initialised, it appends
\* exactly one commit with that parent and returns a commit equal to the one
\* now last in the log.
OpLogAppendUnchecked ==
    [][last'.call = "oplog_append" =>
         /\ Len(commits') = Len(commits) + 1
         /\ SubSeq(commits', 1, Len(commits)) = commits
         /\ Tail_commit(commits').parent = last'.parent
         /\ Tail_commit(commits').operation = last'.operation
         /\ last'.ret = Tail_commit(commits')]_vars

\* OpLog::append has just returned on a log that holds no root commit, with a
\* non-empty parent that is not the id of any commit stored before it.
OpLogAppendUncheckedWitness ==
    /\ last.call = "oplog_append"
    /\ last.parent # <<>>
    /\ \A i \in 1..(Len(commits) - 1) : commits[i].id # last.parent
    /\ \A i \in 1..Len(commits) : commits[i].operation.variant # "Create"
    /\ Len(commits) >= 2

\* Positions of the root commits of a log: Create operation, empty parent.
Roots(cs) ==
    {i \in 1..Len(cs) :
        cs[i].operation.variant = "Create" /\ cs[i].parent = <<>>}

\* C16: OpLog::new holds no commits, and every OpLog::init appends exactly
\* one root commit whatever the log holds: one more root, with empty parent
\* and the same id as every root already there.
OpLogInitUnguarded ==
    [][/\ (last.call = "oplog_new" => Len(commits) = 0)
       /\ (last'.call = "init" =>
             /\ Len(commits') = Len(commits) + 1
             /\ SubSeq(commits', 1, Len(commits)) = commits
             /\ Tail_commit(commits').parent = <<>>
             /\ Cardinality(Roots(commits')) = Cardinality(Roots(commits)) + 1
             /\ \A i \in Roots(commits) :
                   commits[i].id = Tail_commit(commits').id)]_vars

\* OpLog::init has just run for at least the third time, on a log that also
\* holds appended commits.
OpLogInitUnguardedWitness ==
    /\ last.call = "init"
    /\ Cardinality(Roots(commits)) >= 3
    /\ Len(commits) > Cardinality(Roots(commits))
    /\ commits[1].id = Tail_commit(commits).id

====
